---- MODULE Spec2Model ----
(***************************************************************************)
(* Model of streamlit_app.py: the Soil Trafficability & Compaction         *)
(* Advisor.  One script run reads the form widgets, and when the form was  *)
(* submitted parses the six text fields, evaluates the five indicators,    *)
(* aggregates them and looks the recommendations up; it then answers the   *)
(* quick question, if any.                                                 *)
(*                                                                         *)
(* Text is a sequence of one-character strings.  A float is a record       *)
(* [k, n, d]: k = "num" is the decimal n/d (d a power of ten), "inf" is    *)
(* the infinity of sign n, "nan" is not-a-number; "none" is Python's None  *)
(* and "raise" is an exception leaving float().  Decimals are compared     *)
(* exactly, which agrees with binary floats for the short decimal texts    *)
(* the input sets hold (a text and a literal of the same decimal convert   *)
(* to the same float).  Exponents and digit separators are not in the      *)
(* input sets and not parsed.                                              *)
(***************************************************************************)
EXTENDS Integers, Sequences, FiniteSets, TLC

VARIABLES
    bd_input, ci_input, smd_input, moist_cat, tp_input, wl_input, rut_input,
    submitted, query,
    bd, ci, smd, tp, wl, rut,
    bd_level, ci_level, moist_level, tire_level, rut_level,
    bd_note, ci_note, moist_note, tire_note, rut_note,
    levels, overall, recs, answer, pc

inputs == <<bd_input, ci_input, smd_input, moist_cat, tp_input, wl_input,
            rut_input, submitted, query>>
parsed == <<bd, ci, smd, tp, wl, rut>>
indicators == <<bd_level, ci_level, moist_level, tire_level, rut_level,
                bd_note, ci_note, moist_note, tire_note, rut_note>>
vars == <<inputs, parsed, indicators, levels, overall, recs, answer, pc>>

----------------------------------------------------------------------------
(* Floats *)

None == [k |-> "none", n |-> 0, d |-> 1]
Raise == [k |-> "raise", n |-> 0, d |-> 1]
NaN == [k |-> "nan", n |-> 0, d |-> 1]
Inf(sign) == [k |-> "inf", n |-> sign, d |-> 1]
Dec(num, den) == [k |-> "num", n |-> num, d |-> den]

\* x > t and x >= t on floats; every comparison with nan is false.
Gt(x, t) ==
    CASE x.k = "num" -> x.n * t.d > t.n * x.d
      [] x.k = "inf" -> x.n > 0
      [] OTHER -> FALSE

Ge(x, t) ==
    CASE x.k = "num" -> x.n * t.d >= t.n * x.d
      [] x.k = "inf" -> x.n > 0
      [] OTHER -> FALSE

----------------------------------------------------------------------------
(* Text *)

Digits == {"0", "1", "2", "3", "4", "5", "6", "7", "8", "9"}

DigitVal(c) ==
    CASE c = "0" -> 0 [] c = "1" -> 1 [] c = "2" -> 2 [] c = "3" -> 3
      [] c = "4" -> 4 [] c = "5" -> 5 [] c = "6" -> 6 [] c = "7" -> 7
      [] c = "8" -> 8 [] c = "9" -> 9

\* str.lower() on the letters the input sets use.
LowerChar(c) ==
    CASE c = "A" -> "a" [] c = "B" -> "b" [] c = "C" -> "c" [] c = "D" -> "d"
      [] c = "F" -> "f" [] c = "I" -> "i" [] c = "M" -> "m" [] c = "N" -> "n"
      [] c = "S" -> "s" [] c = "T" -> "t" [] c = "W" -> "w"
      [] OTHER -> c

Lower(s) == [i \in 1..Len(s) |-> LowerChar(s[i])]

\* Python's `sub in s` on strings.
Contains(s, sub) ==
    \E i \in 0..(Len(s) - Len(sub)) :
        \A j \in 1..Len(sub) : s[i + j] = sub[j]

RECURSIVE StripLeft(_)
StripLeft(s) ==
    IF s # <<>> /\ Head(s) = " " THEN StripLeft(Tail(s)) ELSE s

RECURSIVE StripRight(_)
StripRight(s) ==
    IF s # <<>> /\ s[Len(s)] = " " THEN StripRight(SubSeq(s, 1, Len(s) - 1)) ELSE s

Strip(s) == StripRight(StripLeft(s))

RECURSIVE NatOf(_)
NatOf(s) ==
    IF s = <<>> THEN 0 ELSE 10 * NatOf(SubSeq(s, 1, Len(s) - 1)) + DigitVal(s[Len(s)])

RECURSIVE Pow10(_)
Pow10(e) == IF e = 0 THEN 1 ELSE 10 * Pow10(e - 1)

AllDigits(s) == \A i \in 1..Len(s) : s[i] \in Digits

\* The decimal num/den in lowest power of ten: 3.0 and 3 are one float.
RECURSIVE Norm(_, _)
Norm(num, den) ==
    IF den > 1 /\ num % 10 = 0 THEN Norm(num \div 10, den \div 10) ELSE Dec(num, den)

\* The unsigned part of a float literal: nan, inf, infinity, or digits with
\* at most one point and at least one digit.
Unsigned(body, sign) ==
    LET low == Lower(body)
        dots == {i \in 1..Len(body) : body[i] = "."}
        dot == IF dots = {} THEN Len(body) + 1 ELSE CHOOSE i \in dots : TRUE
        ip == SubSeq(body, 1, dot - 1)
        fp == SubSeq(body, dot + 1, Len(body))
    IN  IF low = <<"n", "a", "n">> THEN NaN
        ELSE IF low = <<"i", "n", "f">>
                \/ low = <<"i", "n", "f", "i", "n", "i", "t", "y">> THEN Inf(sign)
        ELSE IF Cardinality(dots) <= 1 /\ AllDigits(ip) /\ AllDigits(fp)
                /\ Len(ip) + Len(fp) >= 1
             THEN Norm(sign * (NatOf(ip) * Pow10(Len(fp)) + NatOf(fp)), Pow10(Len(fp)))
        ELSE Raise

\* float(x) on a str: surrounding blanks are dropped, one sign is allowed,
\* anything else raises ValueError.
FloatOf(x) ==
    LET s == Strip(x)
    IN  IF s = <<>> THEN Raise
        ELSE IF Head(s) = "-" THEN Unsigned(Tail(s), -1)
        ELSE IF Head(s) = "+" THEN Unsigned(Tail(s), 1)
        ELSE Unsigned(s, 1)

\* Mutant: float(x) without the try/except.
parse_float_unguarded(x) == FloatOf(x)

parse_float(x) ==
    LET f == FloatOf(x) IN IF f.k = "raise" THEN None ELSE f

----------------------------------------------------------------------------
(* Explanations: an f-string is the sequence of its parts, a literal or a *)
(* formatted number (format spec and argument).                            *)

Lit(s) == [t |-> "lit", s |-> s, x |-> None]
Num(spec, x) == [t |-> "num", s |-> spec, x |-> x]

\* `text in r` for a literal text that no formatted number can hold.
HasText(r, text) == \E i \in 1..Len(r) : r[i].t = "lit" /\ r[i].s = text

\* sep.join(rs)
RECURSIVE Join(_, _)
Join(sep, rs) ==
    IF rs = <<>> THEN <<>>
    ELSE IF Len(rs) = 1 THEN rs[1]
    ELSE rs[1] \o <<Lit(sep)>> \o Join(sep, Tail(rs))

----------------------------------------------------------------------------
(* Thresholds *)

BD_HIGH == Dec(143, 100)
BD_MODERATE == Dec(130, 100)
CI_VERY_HIGH == Dec(3, 1)
CI_HIGH == Dec(15, 10)
CI_MODERATE == Dec(8, 10)
SMD_FAVOURABLE == Dec(10, 1)
SMD_MARGINAL == Dec(0, 1)
TP_LIMIT == Dec(50, 1)
WL_LIMIT == Dec(5000, 1)
RUT_HIGH == Dec(10, 1)
RUT_MODERATE == Dec(3, 1)

----------------------------------------------------------------------------
(* Indicator evaluators: each returns <<level, note>>. *)

\* Mutant: the High branch taken from 1.43 on.
interpret_bulk_density_inclusive(x) ==
    IF x = None THEN <<"Unknown", <<Lit("No bulk density provided.")>>>>
    ELSE IF Ge(x, BD_HIGH)
        THEN <<"High", <<Lit("BD = "), Num(".2f", x), Lit(" exceeds critical ~1.43")>>>>
    ELSE IF Gt(x, BD_MODERATE)
        THEN <<"Moderate", <<Lit("BD = "), Num(".2f", x), Lit(" (1.30-1.43)")>>>>
    ELSE <<"Low", <<Lit("BD = "), Num(".2f", x), Lit(" within normal range")>>>>

interpret_bulk_density(x) ==
    IF x = None THEN <<"Unknown", <<Lit("No bulk density provided.")>>>>
    ELSE IF Gt(x, BD_HIGH)
        THEN <<"High", <<Lit("BD = "), Num(".2f", x), Lit(" exceeds critical ~1.43")>>>>
    ELSE IF Gt(x, BD_MODERATE)
        THEN <<"Moderate", <<Lit("BD = "), Num(".2f", x), Lit(" (1.30-1.43)")>>>>
    ELSE <<"Low", <<Lit("BD = "), Num(".2f", x), Lit(" within normal range")>>>>

\* Mutant: the Moderate branch taken only above 0.8.
interpret_cone_index_exclusive(x) ==
    IF x = None THEN <<"Unknown", <<Lit("No cone index provided.")>>>>
    ELSE IF Ge(x, CI_VERY_HIGH)
        THEN <<"Very High", <<Lit("CI = "), Num(".2f", x), Lit(" near-zero root growth")>>>>
    ELSE IF Ge(x, CI_HIGH)
        THEN <<"High", <<Lit("CI = "), Num(".2f", x), Lit(" ~50% root growth reduction")>>>>
    ELSE IF Gt(x, CI_MODERATE)
        THEN <<"Moderate", <<Lit("CI = "), Num(".2f", x), Lit(" approaching limits")>>>>
    ELSE <<"Low", <<Lit("CI = "), Num(".2f", x), Lit(" generally permissive")>>>>

interpret_cone_index(x) ==
    IF x = None THEN <<"Unknown", <<Lit("No cone index provided.")>>>>
    ELSE IF Ge(x, CI_VERY_HIGH)
        THEN <<"Very High", <<Lit("CI = "), Num(".2f", x), Lit(" near-zero root growth")>>>>
    ELSE IF Ge(x, CI_HIGH)
        THEN <<"High", <<Lit("CI = "), Num(".2f", x), Lit(" ~50% root growth reduction")>>>>
    ELSE IF Ge(x, CI_MODERATE)
        THEN <<"Moderate", <<Lit("CI = "), Num(".2f", x), Lit(" approaching limits")>>>>
    ELSE <<"Low", <<Lit("CI = "), Num(".2f", x), Lit(" generally permissive")>>>>

\* Mutant: the category input consulted before the numeric SMD.
interpret_moisture_cat_first(x, cat) ==
    IF cat \in {"dry", "moderate"}
        THEN <<"Favourable", <<Lit("Moisture: "), Lit(cat), Lit(" relatively safe")>>>>
    ELSE IF cat \in {"near_field_capacity", "wet"}
        THEN <<"Poor", <<Lit("Moisture: "), Lit(cat), Lit(" avoid traffic")>>>>
    ELSE IF x # None THEN
        IF Ge(x, SMD_FAVOURABLE)
            THEN <<"Favourable", <<Lit("SMD = +"), Num(".1f", x), Lit(" favourable")>>>>
        ELSE IF Ge(x, SMD_MARGINAL)
            THEN <<"Marginal", <<Lit("SMD = +"), Num(".1f", x), Lit(" marginal")>>>>
        ELSE <<"Poor", <<Lit("SMD = "), Num(".1f", x), Lit(" likely wet")>>>>
    ELSE <<"Unknown", <<Lit("No moisture data provided.")>>>>

interpret_moisture(x, cat) ==
    IF x # None THEN
        IF Ge(x, SMD_FAVOURABLE)
            THEN <<"Favourable", <<Lit("SMD = +"), Num(".1f", x), Lit(" favourable")>>>>
        ELSE IF Ge(x, SMD_MARGINAL)
            THEN <<"Marginal", <<Lit("SMD = +"), Num(".1f", x), Lit(" marginal")>>>>
        ELSE <<"Poor", <<Lit("SMD = "), Num(".1f", x), Lit(" likely wet")>>>>
    ELSE IF cat \in {"dry", "moderate"}
        THEN <<"Favourable", <<Lit("Moisture: "), Lit(cat), Lit(" relatively safe")>>>>
    ELSE IF cat \in {"near_field_capacity", "wet"}
        THEN <<"Poor", <<Lit("Moisture: "), Lit(cat), Lit(" avoid traffic")>>>>
    ELSE <<"Unknown", <<Lit("No moisture data provided.")>>>>

TireReason(x) ==
    <<Lit("Tire pressure "), Num(".0f", x), Lit(" kPa > 50 kPa (increases contact stress).")>>

LoadReason(x) ==
    <<Lit("Wheel load "), Num(".0f", x), Lit(" kg "), Lit(">= 5000"),
      Lit(" kg (increases subsoil compaction risk).")>>

\* The reasons list after the two appends.
Reasons(tp_kpa, wheel_load_kg) ==
    (IF tp_kpa # None /\ Gt(tp_kpa, TP_LIMIT) THEN <<TireReason(tp_kpa)>> ELSE <<>>)
    \o (IF wheel_load_kg # None /\ Ge(wheel_load_kg, WL_LIMIT)
            THEN <<LoadReason(wheel_load_kg)>> ELSE <<>>)

\* Mutant: the level decided by the first reason alone.
interpret_tire_and_load_first(tp_kpa, wheel_load_kg) ==
    LET reasons == Reasons(tp_kpa, wheel_load_kg)
    IN  IF reasons = <<>>
            THEN <<"Low", <<Lit("Tire pressure and wheel load within low-risk bounds.")>>>>
        ELSE IF HasText(reasons[1], ">= 5000")
            THEN <<"High", Join(" ", reasons)>>
        ELSE <<"Moderate", Join(" ", reasons)>>

interpret_tire_and_load(tp_kpa, wheel_load_kg) ==
    LET reasons == Reasons(tp_kpa, wheel_load_kg)
    IN  IF reasons = <<>>
            THEN <<"Low", <<Lit("Tire pressure and wheel load within low-risk bounds.")>>>>
        ELSE IF \E i \in 1..Len(reasons) : HasText(reasons[i], ">= 5000")
            THEN <<"High", Join(" ", reasons)>>
        ELSE <<"Moderate", Join(" ", reasons)>>

\* Mutant: the Moderate branch taken from 3 on.
interpret_rut_depth_inclusive(x) ==
    IF x = None THEN <<"Unknown", <<Lit("No rut depth provided.")>>>>
    ELSE IF Gt(x, RUT_HIGH)
        THEN <<"High", <<Lit("Rut depth "), Num(".1f", x), Lit(" cm > 10 cm")>>>>
    ELSE IF Ge(x, RUT_MODERATE)
        THEN <<"Moderate", <<Lit("Rut depth "), Num(".1f", x), Lit(" cm noticeable")>>>>
    ELSE <<"Low", <<Lit("Rut depth "), Num(".1f", x), Lit(" cm negligible")>>>>

interpret_rut_depth(x) ==
    IF x = None THEN <<"Unknown", <<Lit("No rut depth provided.")>>>>
    ELSE IF Gt(x, RUT_HIGH)
        THEN <<"High", <<Lit("Rut depth "), Num(".1f", x), Lit(" cm > 10 cm")>>>>
    ELSE IF Gt(x, RUT_MODERATE)
        THEN <<"Moderate", <<Lit("Rut depth "), Num(".1f", x), Lit(" cm noticeable")>>>>
    ELSE <<"Low", <<Lit("Rut depth "), Num(".1f", x), Lit(" cm negligible")>>>>

----------------------------------------------------------------------------
(* Aggregation and recommendations *)

\* Mutant: Unknown scored like Moderate.
score_map_unknown(l) ==
    CASE l \in {"Moderate", "Marginal", "Unknown"} -> 1
      [] l \in {"High", "Poor"} -> 2
      [] l = "Very High" -> 3
      [] OTHER -> 0

\* Mutant: Very High scored 5, enough for High on its own.
score_map_heavy(l) ==
    CASE l \in {"Moderate", "Marginal"} -> 1
      [] l \in {"High", "Poor"} -> 2
      [] l = "Very High" -> 5
      [] OTHER -> 0

\* score_map.get(l, 0)
score_map(l) ==
    CASE l = "Low" -> 0
      [] l = "Favourable" -> 0
      [] l = "Moderate" -> 1
      [] l = "Marginal" -> 1
      [] l = "High" -> 2
      [] l = "Very High" -> 3
      [] l = "Poor" -> 2
      [] l = "Unknown" -> 0
      [] OTHER -> 0

RECURSIVE Total(_)
Total(ls) == IF ls = <<>> THEN 0 ELSE score_map(Head(ls)) + Total(Tail(ls))

\* Mutant: High only above 5.
aggregate_risk_strict(ls) ==
    IF Total(ls) > 5 THEN "High"
    ELSE IF Total(ls) >= 2 THEN "Moderate"
    ELSE "Low"

aggregate_risk(ls) ==
    IF Total(ls) >= 5 THEN "High"
    ELSE IF Total(ls) >= 2 THEN "Moderate"
    ELSE "Low"

HighActions ==
    << "Avoid field traffic until soil dries (aim SMD >= +10 mm) or BD/CI improve.",
       "Reduce tire pressure and/or reduce axle/wheel loads; use wide tires or tracks.",
       "Use Controlled Traffic Farming (confine compaction to fixed lanes).",
       "If persistent subsoil compaction is confirmed, consider deep ripping where agronomically appropriate." >>

ModerateActions ==
    << "Lower tire pressures and reduce loads where feasible.",
       "Schedule operations for drier windows; avoid repeated passes.",
       "Monitor BD and CI after operations; adjust tactics accordingly." >>

LowActions ==
    << "Field conditions acceptable for operations; continue routine monitoring of BD and CI.",
       "Practice best traffic management to avoid long-term compaction (CTF, wide tires)." >>

recommendations(overall_level) ==
    IF overall_level = "High" THEN HighActions
    ELSE IF overall_level = "Moderate" THEN ModerateActions
    ELSE LowActions

----------------------------------------------------------------------------
(* Quick Q/A *)

KW_TRAFFICABILITY == <<"t", "r", "a", "f", "f", "i", "c", "a", "b", "i", "l", "i", "t", "y">>
KW_COMPACTION == <<"c", "o", "m", "p", "a", "c", "t", "i", "o", "n">>
KW_BULK_DENSITY == <<"b", "u", "l", "k", " ", "d", "e", "n", "s", "i", "t", "y">>
KW_BD == <<"b", "d">>
KW_CONE_INDEX == <<"c", "o", "n", "e", " ", "i", "n", "d", "e", "x">>
KW_CI == <<"c", "i">>
KW_SMD == <<"s", "m", "d">>
KW_SOIL_MOISTURE_DEFICIT == <<"s", "o", "i", "l", " ", "m", "o", "i", "s", "t", "u", "r", "e", " ", "d", "e", "f", "i", "c", "i", "t">>

\* Mutant: the bulk-density branch tested before the compaction branch.
Respond_reordered(q) ==
    IF Contains(q, KW_TRAFFICABILITY) THEN "trafficability"
    ELSE IF Contains(q, KW_BULK_DENSITY) \/ Contains(q, KW_BD) THEN "bulk density"
    ELSE IF Contains(q, KW_COMPACTION) THEN "compaction"
    ELSE IF Contains(q, KW_CONE_INDEX) \/ Contains(q, KW_CI) THEN "cone index"
    ELSE IF Contains(q, KW_SMD) \/ Contains(q, KW_SOIL_MOISTURE_DEFICIT) THEN "smd"
    ELSE "fallback"

\* The if/elif chain on the lower-cased query.
Respond(q) ==
    IF Contains(q, KW_TRAFFICABILITY) THEN "trafficability"
    ELSE IF Contains(q, KW_COMPACTION) THEN "compaction"
    ELSE IF Contains(q, KW_BULK_DENSITY) \/ Contains(q, KW_BD) THEN "bulk density"
    ELSE IF Contains(q, KW_CONE_INDEX) \/ Contains(q, KW_CI) THEN "cone index"
    ELSE IF Contains(q, KW_SMD) \/ Contains(q, KW_SOIL_MOISTURE_DEFICIT) THEN "smd"
    ELSE "fallback"

\* What the section writes: nothing for an empty query, else one response.
QuickAnswer(text) ==
    IF text # <<>> THEN <<Respond(Lower(text))>> ELSE <<>>

----------------------------------------------------------------------------
(* Inputs *)

MaxFrags == 2
NumIndicators == 5

\* Texts typed into the six fields: empty, unparseable, and the values around each threshold.
BdTexts ==
    { <<>>,
      <<"a", "b", "c">>,
      <<"0">>,
      <<"1", ".", "3">>,
      <<"1", ".", "3", "1">>,
      <<"1", ".", "4", "3">>,
      <<"1", ".", "4", "4">>,
      <<"n", "a", "n">> }
CiTexts ==
    { <<>>,
      <<"0", ".", "7", "9">>,
      <<"0", ".", "8">>,
      <<"1", ".", "5">>,
      <<"2", ".", "9", "9">>,
      <<"3", ".", "0">> }
SmdTexts ==
    { <<>>,
      <<"-", "5">>,
      <<"0">>,
      <<"5">>,
      <<"1", "0">> }
TpTexts ==
    { <<>>,
      <<"5", "0">>,
      <<"6", "0">>,
      <<" ", "7", "0", " ">> }
WlTexts ==
    { <<>>,
      <<"3", "0", "0", "0">>,
      <<"5", "0", "0", "0">>,
      <<"6", "0", "0", "0">> }
RutTexts ==
    { <<>>,
      <<"3">>,
      <<"3", ".", "0", "1">>,
      <<"1", "0">>,
      <<"1", "0", ".", "0", "1">> }

MoistCats == {"", "dry", "moderate", "near_field_capacity", "wet"}

\* Pieces a question is put together from.
Frags ==
    { <<"t", "r", "a", "f", "f", "i", "c", "a", "b", "i", "l", "i", "t", "y">>,
      <<"c", "o", "m", "p", "a", "c", "t", "i", "o", "n">>,
      <<"b", "u", "l", "k", " ", "d", "e", "n", "s", "i", "t", "y">>,
      <<"b", "d">>,
      <<"c", "o", "n", "e", " ", "i", "n", "d", "e", "x">>,
      <<"c", "i">>,
      <<"s", "m", "d">>,
      <<"s", "o", "i", "l", " ", "m", "o", "i", "s", "t", "u", "r", "e", " ", "d", "e", "f", "i", "c", "i", "t">>,
      <<"B", "D">>,
      <<"C", "i">>,
      <<"W", "h", "a", "t", " ">>,
      <<" ", "i", "s", " ", "c", "r", "i", "t", "i", "c", "a", "l", "?">>,
      <<"m", "o", "i", "s", "t", "u", "r", "e">>,
      <<"b">>,
      <<"d">>,
      <<"x">> }

RECURSIVE Concat(_)
Concat(ts) == IF ts = <<>> THEN <<>> ELSE Head(ts) \o Concat(Tail(ts))

Queries == UNION {{Concat(ts) : ts \in [1..n -> Frags]} : n \in 0..MaxFrags}

\* Labels handed to aggregate_risk directly: the table's and one outside it.
Labels == {"Low", "Favourable", "Unknown", "Moderate", "Marginal", "High", "Poor",
           "Very High", "Severe"}

----------------------------------------------------------------------------
(* The script run *)

Blank ==
    /\ bd = None /\ ci = None /\ smd = None /\ tp = None /\ wl = None /\ rut = None
    /\ bd_level = "" /\ ci_level = "" /\ moist_level = "" /\ tire_level = ""
    /\ rut_level = ""
    /\ bd_note = <<>> /\ ci_note = <<>> /\ moist_note = <<>> /\ tire_note = <<>>
    /\ rut_note = <<>>
    /\ overall = "" /\ recs = <<>> /\ answer = <<>>

\* A submitted form, any field values, no question.
InitAssess ==
    /\ bd_input \in BdTexts /\ ci_input \in CiTexts /\ smd_input \in SmdTexts
    /\ moist_cat \in MoistCats
    /\ tp_input \in TpTexts /\ wl_input \in WlTexts /\ rut_input \in RutTexts
    /\ submitted = TRUE
    /\ query = <<>>
    /\ levels = <<>>
    /\ Blank
    /\ pc = "form"

\* Any question, over the untouched form or over a submitted one.
InitAsk ==
    /\ \/ /\ submitted = FALSE
          /\ bd_input = <<>> /\ ci_input = <<>> /\ smd_input = <<>>
          /\ moist_cat = ""
          /\ tp_input = <<>> /\ wl_input = <<>> /\ rut_input = <<>>
       \/ /\ submitted = TRUE
          /\ bd_input = <<"1", ".", "5">> /\ ci_input = <<"2", ".", "0">>
          /\ smd_input = <<"-", "5">>
          /\ moist_cat = ""
          /\ tp_input = <<"7", "0">> /\ wl_input = <<"6", "0", "0", "0">>
          /\ rut_input = <<"1", "2">>
    /\ query \in Queries
    /\ levels = <<>>
    /\ Blank
    /\ pc = "form"

Init == InitAssess \/ InitAsk

\* if submitted: parse, interpret, aggregate, recommend.  An exception
\* leaving a call ends the run.
RunAssessment ==
    /\ pc = "form"
    /\ submitted
    /\ \E b \in {parse_float(bd_input)}, c \in {parse_float(ci_input)},
          s \in {parse_float(smd_input)}, t \in {parse_float(tp_input)},
          w \in {parse_float(wl_input)}, r \in {parse_float(rut_input)} :
        IF \E v \in {b, c, s, t, w, r} : v.k = "raise"
        THEN /\ pc' = "error"
             /\ UNCHANGED <<parsed, indicators, levels, overall, recs>>
        ELSE \E bdr \in {interpret_bulk_density(b)},
                cir \in {interpret_cone_index(c)},
                mor \in {interpret_moisture(s, moist_cat)},
                tir \in {interpret_tire_and_load(t, w)},
                rur \in {interpret_rut_depth(r)} :
             \E ov \in {aggregate_risk(<<bdr[1], cir[1], mor[1], tir[1], rur[1]>>)} :
                /\ bd' = b /\ ci' = c /\ smd' = s /\ tp' = t /\ wl' = w /\ rut' = r
                /\ bd_level' = bdr[1] /\ bd_note' = bdr[2]
                /\ ci_level' = cir[1] /\ ci_note' = cir[2]
                /\ moist_level' = mor[1] /\ moist_note' = mor[2]
                /\ tire_level' = tir[1] /\ tire_note' = tir[2]
                /\ rut_level' = rur[1] /\ rut_note' = rur[2]
                /\ levels' = <<bdr[1], cir[1], mor[1], tir[1], rur[1]>>
                /\ overall' = ov
                /\ recs' = recommendations(ov)
                /\ pc' = "qa"
    /\ UNCHANGED <<inputs, answer>>

\* The form was not submitted: the block is skipped.
SkipAssessment ==
    /\ pc = "form"
    /\ ~submitted
    /\ pc' = "qa"
    /\ UNCHANGED <<inputs, parsed, indicators, levels, overall, recs, answer>>

\* if query: the keyword chain writes one response.
QuickQA ==
    /\ pc = "qa"
    /\ answer' = QuickAnswer(query)
    /\ pc' = "done"
    /\ UNCHANGED <<inputs, parsed, indicators, levels, overall, recs>>

Next == RunAssessment \/ SkipAssessment \/ QuickQA

Spec == Init /\ [][Next]_vars

----------------------------------------------------------------------------
(* aggregate_risk and recommendations on any list of five labels *)

InitAgg ==
    /\ bd_input = <<>> /\ ci_input = <<>> /\ smd_input = <<>> /\ moist_cat = ""
    /\ tp_input = <<>> /\ wl_input = <<>> /\ rut_input = <<>>
    /\ submitted = TRUE
    /\ query = <<>>
    /\ levels \in [1..NumIndicators -> Labels]
    /\ Blank
    /\ pc = "aggregate"

Aggregate ==
    /\ pc = "aggregate"
    /\ overall' = aggregate_risk(levels)
    /\ recs' = recommendations(aggregate_risk(levels))
    /\ pc' = "done"
    /\ UNCHANGED <<inputs, parsed, indicators, levels, answer>>

NextAgg == Aggregate

SpecAgg == InitAgg /\ [][NextAgg]_vars

----------------------------------------------------------------------------
(* Properties *)

\* The assessment block has run to its end.
Assessed == submitted /\ pc \in {"qa", "done"}

\* x <= t and x < t on floats.
Le(x, t) == (x.k = "num" /\ x.n * t.d <= t.n * x.d) \/ (x.k = "inf" /\ x.n < 0)
Lt(x, t) == (x.k = "num" /\ x.n * t.d < t.n * x.d) \/ (x.k = "inf" /\ x.n < 0)

\* The weight table as the specification states it.
Weight(l) ==
    IF l \in {"Moderate", "Marginal"} THEN 1
    ELSE IF l \in {"High", "Poor"} THEN 2
    ELSE IF l = "Very High" THEN 3
    ELSE 0

Score(ls) == Weight(ls[1]) + Weight(ls[2]) + Weight(ls[3]) + Weight(ls[4]) + Weight(ls[5])

Unparseable == {<<>>, <<"a", "b", "c">>}

\* C1: a run never ends in an error; unparseable text parses to None, every
\* evaluator yields one category of its own set, the overall level is Low,
\* Moderate or High and the recommendations are one of the three fixed lists.
C1_RunIsTotal ==
    /\ pc # "error"
    /\ Assessed =>
        /\ bd_input \in Unparseable => bd = None
        /\ ci_input \in Unparseable => ci = None
        /\ smd_input \in Unparseable => smd = None
        /\ tp_input \in Unparseable => tp = None
        /\ wl_input \in Unparseable => wl = None
        /\ rut_input \in Unparseable => rut = None
        /\ bd_level \in {"Unknown", "High", "Moderate", "Low"}
        /\ ci_level \in {"Unknown", "Very High", "High", "Moderate", "Low"}
        /\ moist_level \in {"Unknown", "Favourable", "Marginal", "Poor"}
        /\ tire_level \in {"Low", "Moderate", "High"}
        /\ rut_level \in {"Unknown", "High", "Moderate", "Low"}
        /\ overall \in {"Low", "Moderate", "High"}
        /\ recs \in {HighActions, ModerateActions, LowActions}

C1_Witness ==
    /\ pc = "done" /\ submitted
    /\ bd_input = <<"a", "b", "c">> /\ ci_input = <<>> /\ rut_input = <<"3", ".", "0", "1">>
    /\ bd = None /\ rut_level = "Moderate"

AllAbsent ==
    /\ bd = None /\ ci = None /\ smd = None /\ tp = None /\ wl = None /\ rut = None
    /\ moist_cat = ""

\* C2 as stated: with all six fields absent all five indicators are Unknown,
\* the overall level is Low and the Low list is recommended.
C2_AllUnknown ==
    (Assessed /\ AllAbsent) =>
        /\ bd_level = "Unknown" /\ ci_level = "Unknown" /\ moist_level = "Unknown"
        /\ tire_level = "Unknown" /\ rut_level = "Unknown"
        /\ overall = "Low" /\ recs = LowActions

\* C2 amended: with all six fields absent, bulk density, cone index, moisture
\* and rut depth are Unknown and tire pressure / wheel load is Low; the overall
\* level is Low and the two-item Low list is recommended.
C2_AllAbsent ==
    (Assessed /\ AllAbsent) =>
        /\ bd_level = "Unknown" /\ ci_level = "Unknown" /\ moist_level = "Unknown"
        /\ tire_level = "Low" /\ rut_level = "Unknown"
        /\ overall = "Low" /\ recs = LowActions /\ Len(recs) = 2

C2_Witness ==
    /\ pc = "done" /\ submitted /\ AllAbsent
    /\ bd_input = <<>> /\ ci_input = <<>> /\ smd_input = <<>>
    /\ tp_input = <<>> /\ wl_input = <<>> /\ rut_input = <<>>
    /\ query = <<>> /\ overall = "Low"

\* C3: aggregate_risk sums the table's weights, counting a label outside the
\* table as 0, and returns High from 5, Moderate from 2 to 4 and Low below 2;
\* five Unknown give Low and five High give High.
C3_Aggregate ==
    pc = "done" /\ Len(levels) = NumIndicators =>
        /\ Score(levels) >= 5 => overall = "High"
        /\ Score(levels) >= 2 /\ Score(levels) < 5 => overall = "Moderate"
        /\ Score(levels) < 2 => overall = "Low"
        /\ levels = [i \in 1..NumIndicators |-> "Unknown"] => overall = "Low"
        /\ levels = [i \in 1..NumIndicators |-> "High"] => overall = "High"

C3_Witness ==
    /\ pc = "done"
    /\ levels = <<"Severe", "Very High", "Severe", "Poor", "Severe">>
    /\ overall = "High"

TireTriggered == tp # None /\ Gt(tp, TP_LIMIT)
LoadTriggered == wl # None /\ Ge(wl, WL_LIMIT)

\* C4: tire pressure / wheel load is Low when neither reason triggers, High
\* whenever the wheel-load reason triggers, Moderate exactly when only the
\* tire-pressure reason triggers; the explanation holds every triggered
\* reason, the tire-pressure reason first.
C4_TireAndLoad ==
    Assessed =>
        /\ ~TireTriggered /\ ~LoadTriggered => tire_level = "Low"
        /\ (tp = None \/ Le(tp, TP_LIMIT)) /\ (wl = None \/ Lt(wl, WL_LIMIT))
              => tire_level = "Low"
        /\ LoadTriggered => tire_level = "High"
        /\ tire_level = "Moderate" <=> (TireTriggered /\ ~LoadTriggered)
        /\ TireTriggered => SubSeq(tire_note, 1, 3) = TireReason(tp)
        /\ LoadTriggered =>
              SubSeq(tire_note, Len(tire_note) - 4, Len(tire_note)) = LoadReason(wl)
        /\ TireTriggered /\ LoadTriggered =>
              tire_note = TireReason(tp) \o <<Lit(" ")>> \o LoadReason(wl)

C4_Witness ==
    /\ Assessed
    /\ tp = Dec(60, 1) /\ wl = Dec(6000, 1)
    /\ tire_level = "High"
    /\ tire_note = TireReason(tp) \o <<Lit(" ")>> \o LoadReason(wl)

\* C5: a present smd alone decides the moisture category, whatever the
\* moisture category input; the category input decides only when smd is
\* absent.
C5_Moisture ==
    Assessed =>
        /\ smd # None =>
            /\ Ge(smd, SMD_FAVOURABLE) => moist_level = "Favourable"
            /\ Ge(smd, SMD_MARGINAL) /\ Lt(smd, SMD_FAVOURABLE) => moist_level = "Marginal"
            /\ Lt(smd, SMD_MARGINAL) => moist_level = "Poor"
            /\ \A cat \in MoistCats : interpret_moisture(smd, cat)[1] = moist_level
        /\ smd = None =>
            /\ moist_cat \in {"dry", "moderate"} => moist_level = "Favourable"
            /\ moist_cat \in {"near_field_capacity", "wet"} => moist_level = "Poor"
            /\ moist_cat \notin {"dry", "moderate", "near_field_capacity", "wet"}
                  => moist_level = "Unknown"

C5_Witness ==
    Assessed /\ smd = Dec(5, 1) /\ moist_cat = "wet" /\ moist_level = "Marginal"

\* C6: bulk density is Unknown when absent, High above 1.43, Moderate above
\* 1.30 up to 1.43, Low up to 1.30; 1.43 is Moderate, 1.30 is Low, 0 is Low.
C6_BulkDensity ==
    Assessed =>
        /\ bd = None <=> bd_level = "Unknown"
        /\ bd # None /\ Gt(bd, BD_HIGH) => bd_level = "High"
        /\ bd # None /\ Gt(bd, BD_MODERATE) /\ Le(bd, BD_HIGH) => bd_level = "Moderate"
        /\ bd # None /\ Le(bd, BD_MODERATE) => bd_level = "Low"
        /\ bd = Dec(143, 100) => bd_level = "Moderate"
        /\ bd = Dec(13, 10) => bd_level = "Low"
        /\ bd = Dec(0, 1) => bd_level = "Low"

C6_Witness ==
    Assessed /\ bd = Dec(143, 100) /\ bd_level = "Moderate"

\* C7: cone index is Unknown when absent, Very High from 3.0, High from 1.5,
\* Moderate from 0.8, Low below 0.8, each lower boundary included.
C7_ConeIndex ==
    Assessed =>
        /\ ci = None <=> ci_level = "Unknown"
        /\ ci # None /\ Ge(ci, CI_VERY_HIGH) => ci_level = "Very High"
        /\ ci # None /\ Ge(ci, CI_HIGH) /\ Lt(ci, CI_VERY_HIGH) => ci_level = "High"
        /\ ci # None /\ Ge(ci, CI_MODERATE) /\ Lt(ci, CI_HIGH) => ci_level = "Moderate"
        /\ ci # None /\ Lt(ci, CI_MODERATE) => ci_level = "Low"
        /\ ci = Dec(8, 10) => ci_level = "Moderate"
        /\ ci = Dec(15, 10) => ci_level = "High"
        /\ ci = Dec(3, 1) => ci_level = "Very High"

C7_Witness ==
    Assessed /\ ci = Dec(8, 10) /\ ci_level = "Moderate"

\* C8: rut depth is Unknown when absent, High above 10, Moderate above 3 up
\* to 10, Low up to 3; 10 is Moderate and 3 is Low.
C8_RutDepth ==
    Assessed =>
        /\ rut = None <=> rut_level = "Unknown"
        /\ rut # None /\ Gt(rut, RUT_HIGH) => rut_level = "High"
        /\ rut # None /\ Gt(rut, RUT_MODERATE) /\ Le(rut, RUT_HIGH) => rut_level = "Moderate"
        /\ rut # None /\ Le(rut, RUT_MODERATE) => rut_level = "Low"
        /\ rut = Dec(10, 1) => rut_level = "Moderate"
        /\ rut = Dec(3, 1) => rut_level = "Low"

C8_Witness ==
    Assessed /\ rut = Dec(10, 1) /\ rut_level = "Moderate"

\* The response the priority order gives a lower-cased question.
Expected(q) ==
    LET m1 == Contains(q, KW_TRAFFICABILITY)
        m2 == Contains(q, KW_COMPACTION)
        m3 == Contains(q, KW_BULK_DENSITY) \/ Contains(q, KW_BD)
        m4 == Contains(q, KW_CONE_INDEX) \/ Contains(q, KW_CI)
        m5 == Contains(q, KW_SMD) \/ Contains(q, KW_SOIL_MOISTURE_DEFICIT)
    IN  CHOOSE r \in {"trafficability", "compaction", "bulk density", "cone index",
                      "smd", "fallback"} :
            /\ r = "trafficability" <=> m1
            /\ r = "compaction" <=> ~m1 /\ m2
            /\ r = "bulk density" <=> ~m1 /\ ~m2 /\ m3
            /\ r = "cone index" <=> ~m1 /\ ~m2 /\ ~m3 /\ m4
            /\ r = "smd" <=> ~m1 /\ ~m2 /\ ~m3 /\ ~m4 /\ m5
            /\ r = "fallback" <=> ~m1 /\ ~m2 /\ ~m3 /\ ~m4 /\ ~m5

\* C9 as stated: every query text gets exactly one response, that of the
\* first matching keyword set, or the fallback.
C9_AnyQuery ==
    pc = "done" => answer = <<Expected(Lower(query))>>

\* C9 amended: every non-empty query text gets exactly one response, that of
\* the first keyword set, in priority order, that matches the lower-cased
\* text as a substring, or the fallback when none matches.
C9_NonEmptyQuery ==
    pc = "done" /\ query # <<>> => answer = <<Expected(Lower(query))>>

C9_Witness ==
    /\ pc = "done"
    /\ query = <<"c", "o", "m", "p", "a", "c", "t", "i", "o", "n", "B", "D">>
    /\ answer = <<"compaction">>

\* C10: the overall level is High only if at least two indicators have a
\* non-zero weight, and the total score never exceeds 11.
C10_HighNeedsTwo ==
    Assessed =>
        /\ overall = "High" =>
              Cardinality({i \in 1..NumIndicators : Weight(levels[i]) > 0}) >= 2
        /\ Score(levels) <= 11

C10_Witness ==
    /\ Assessed
    /\ ci_level = "Very High"
    /\ Weight(bd_level) = 0 /\ Weight(moist_level) = 0
    /\ Weight(tire_level) = 0 /\ Weight(rut_level) = 0
    /\ overall = "Moderate"

====
